---- MODULE Spec2Model ----
(***************************************************************************)
(* The render loop of src/window.rs: the Window struct, Window::resize,    *)
(* Window::render and the event closure that Window::spawn hands to the    *)
(* winit event loop.                                                       *)
(*                                                                         *)
(* Colours are fixed-point: a channel value c stands for c / ColorOne.     *)
(* Physical sizes are multiples of 400 x 300 pixels.                       *)
(***************************************************************************)
EXTENDS Integers, Sequences, FiniteSets, TLC

\* Bounds of the model.
MaxDim == 2          \* widths are 0, 400, .. 400*MaxDim; heights 0, 300, ..
ColorLevels == 1     \* number of evenly spaced samples of gen_range

\* 1.0 in the fixed-point colour representation.
ColorOne == 10

VARIABLES
    event_loop,        \* Window::_event_loop : "Some" | "None"
    background_color,  \* Window::background_color
    config,            \* Window::config (wgpu::SurfaceConfiguration)
    size,              \* Window::size
    index_ct,          \* Window::index_ct
    surface,           \* the configuration the wgpu surface currently holds
    control_flow,      \* *control_flow : "Poll" | "Exit"
    phase,             \* position of the winit loop
    redraw_requested,  \* window.request_redraw() pending for this window
    last               \* what the most recent call of the closure did

vars == <<event_loop, background_color, config, size, index_ct, surface,
          control_flow, phase, redraw_requested, last>>

----------------------------------------------------------------------------
\* Static data

\* Position of each of the 5 compiled-in vertices is irrelevant here; the
\* list is kept by its vertex numbers.
VERTICES == <<0, 1, 2, 3, 4>>

INDICES_off_by_one == <<0, 1, 4, 1, 2, 4, 2, 3, 5>>

INDICES == <<0, 1, 4, 1, 2, 4, 2, 3, 4>>

Dims(unit) == {k * unit : k \in 0..MaxDim}

PhysicalSizes == [width : Dims(400), height : Dims(300)]

\* window.inner_size() of a window that exists on screen
StartupSizes == {s \in PhysicalSizes : s.width > 0 /\ s.height > 0}

\* surface.get_supported_formats(&adapter)[0]
Formats == {"Bgra8UnormSrgb", "Bgra8Unorm"}

\* wgpu::SurfaceError, plus "Ok" for a frame that was acquired
SurfaceErrors == {"Timeout", "Outdated", "Lost", "OutOfMemory"}
AcquireResults == {"Ok"} \cup SurfaceErrors

random_rgb_val_wide ==
    {k * (ColorOne \div ColorLevels) : k \in 0..(ColorLevels - 1)}
        \cup {ColorOne - 1, ColorOne + 1}

\* The values rand::thread_rng().gen_range(0.0..1.0) can return: [0, 1)
random_rgb_val ==
    {k * (ColorOne \div ColorLevels) : k \in 0..(ColorLevels - 1)}
        \cup {ColorOne - 1}

InitialColor == [r |-> 1, g |-> 2, b |-> 3, a |-> ColorOne]

----------------------------------------------------------------------------
\* Window::resize

resize_config_width_only(cfg, new_size) ==
    [cfg EXCEPT !.width = new_size.width]

\* self.config.width = new_size.width; self.config.height = new_size.height
resize_config(cfg, new_size) ==
    [cfg EXCEPT !.width = new_size.width, !.height = new_size.height]

\* wgpu requires a nonzero width and height of a surface configuration and
\* treats a violation as a fatal error of Surface::configure: the call
\* panics and the process ends.
ConfigurePanics(cfg) == cfg.width = 0 \/ cfg.height = 0

\* self.surface.configure(&self.device, &self.config)
surface_configure(surf, cfg) == IF ConfigurePanics(cfg) THEN surf ELSE cfg

----------------------------------------------------------------------------
\* Window::render

FrameOps == <<"get_current_texture", "create_view", "create_command_encoder",
              "begin_render_pass", "set_pipeline", "set_vertex_buffer",
              "set_index_buffer", "draw_indexed", "end_render_pass",
              "finish", "submit", "present">>

render_present_first(acquired, bg, ict) ==
    IF acquired = "Ok"
    THEN [ops |-> <<"get_current_texture", "create_view",
                    "create_command_encoder", "begin_render_pass",
                    "set_pipeline", "set_vertex_buffer", "set_index_buffer",
                    "draw_indexed", "end_render_pass", "finish", "present",
                    "submit">>,
          clear |-> <<bg>>, draw |-> << <<0, ict>> >>]
    ELSE [ops |-> <<"get_current_texture", "submit">>,
          clear |-> <<>>, draw |-> <<>>]

\* The GPU calls one call of render makes, given what get_current_texture
\* returned: `?` returns early on an error.
render(acquired, bg, ict) ==
    IF acquired = "Ok"
    THEN [ops |-> FrameOps, clear |-> <<bg>>, draw |-> << <<0, ict>> >>]
    ELSE [ops |-> <<"get_current_texture">>, clear |-> <<>>, draw |-> <<>>]

----------------------------------------------------------------------------
\* The match on render()'s result in the RedrawRequested arm

redraw_resizes_never(result) == FALSE

redraw_resizes_on_outdated(result) == result \in {"Lost", "Outdated"}

\* Err(wgpu::SurfaceError::Lost) => self.resize(self.size)
redraw_resizes(result) == result = "Lost"

redraw_control_flow_never(result, cf) == cf

\* Err(wgpu::SurfaceError::OutOfMemory) => *control_flow = ControlFlow::Exit
redraw_control_flow(result, cf) ==
    IF result = "OutOfMemory" THEN "Exit" ELSE cf

\* Err(e) => eprintln!("{:?}", e)
redraw_logs(result) == result \in SurfaceErrors \ {"Lost", "OutOfMemory"}

request_redraw_dropped(pending) == pending

\* self.window.request_redraw()
request_redraw(pending) == TRUE

\* matches!(button, MouseButton::Left) && matches!(state, ElementState::Pressed)
is_left_press(button, state) == button = "Left" /\ state = "Pressed"

\* KeyboardInput { state: Pressed, virtual_keycode: Some(Escape), .. }
is_exit_key(state, key) == state = "Pressed" /\ key = "Escape"

----------------------------------------------------------------------------
\* Record of one call of the closure

Quiet(kind, window, detail) ==
    [kind |-> kind, window |-> window, detail |-> detail,
     new_size |-> <<>>, result |-> "none", ops |-> <<>>, clear |-> <<>>,
     draw |-> <<>>, configured |-> <<>>, logged |-> FALSE, printed |-> FALSE]

Called(l) == last' = l

WindowIds == {"self", "other"}

Init ==
    /\ event_loop = "Some"
    /\ background_color = InitialColor
    /\ size \in StartupSizes
    /\ \E f \in Formats :
          config = [width |-> size.width, height |-> size.height,
                    present_mode |-> "Fifo", format |-> f,
                    alpha_mode |-> "Auto", usage |-> "RENDER_ATTACHMENT"]
    /\ surface = config
    /\ index_ct = Len(INDICES)
    /\ control_flow = "Poll"
    /\ phase = "constructed"
    /\ redraw_requested = FALSE
    /\ last = Quiet("none", "none", "")

----------------------------------------------------------------------------
\* Window::spawn: take the event loop and run it

Spawn ==
    /\ phase = "constructed"
    /\ event_loop = "Some"
    /\ event_loop' = "None"
    /\ phase' = "events"
    /\ UNCHANGED <<background_color, config, size, index_ct, surface,
                   control_flow, redraw_requested, last>>

\* The body of Window::resize as run from the closure; the loop goes on in
\* phase `next` unless configure panics.
Resize(new_size, next) ==
    /\ size' = new_size
    /\ config' = resize_config(config, new_size)
    /\ surface' = surface_configure(surface, config')
    /\ phase' = IF ConfigurePanics(config') THEN "panicked" ELSE next

\* WindowEvent::CloseRequested for this window
OnCloseRequested ==
    /\ phase = "events"
    /\ control_flow' = "Exit"
    /\ Called(Quiet("CloseRequested", "self", ""))
    /\ UNCHANGED <<event_loop, background_color, config, size, index_ct,
                   surface, phase, redraw_requested>>

\* WindowEvent::KeyboardInput for this window
OnKeyboardInput ==
    /\ phase = "events"
    /\ \E state \in {"Pressed", "Released"}, key \in {"Escape", "A", "None"} :
          /\ control_flow' = IF is_exit_key(state, key) THEN "Exit"
                             ELSE control_flow
          /\ Called(Quiet("KeyboardInput", "self", state \o "/" \o key))
    /\ UNCHANGED <<event_loop, background_color, config, size, index_ct,
                   surface, phase, redraw_requested>>

\* WindowEvent::Resized(new_size) for this window
OnResized ==
    /\ phase = "events"
    /\ \E new_size \in PhysicalSizes :
          /\ Resize(new_size, "events")
          /\ Called([Quiet("Resized", "self", "") EXCEPT
                        !.new_size = <<new_size>>,
                        !.configured = <<config'>>])
    /\ UNCHANGED <<event_loop, background_color, index_ct, control_flow,
                   redraw_requested>>

\* WindowEvent::ScaleFactorChanged { new_inner_size, .. } for this window
OnScaleFactorChanged ==
    /\ phase = "events"
    /\ \E new_size \in PhysicalSizes :
          /\ Resize(new_size, "events")
          /\ Called([Quiet("ScaleFactorChanged", "self", "") EXCEPT
                        !.new_size = <<new_size>>,
                        !.configured = <<config'>>])
    /\ UNCHANGED <<event_loop, background_color, index_ct, control_flow,
                   redraw_requested>>

\* WindowEvent::MouseInput { button, state, .. } for this window
OnMouseInput ==
    /\ phase = "events"
    /\ \E button \in {"Left", "Right", "Middle"},
          state \in {"Pressed", "Released"} :
          /\ IF is_left_press(button, state)
             THEN \E r \in random_rgb_val, g \in random_rgb_val,
                     b \in random_rgb_val :
                     background_color' = [r |-> r, g |-> g, b |-> b,
                                          a |-> ColorOne]
             ELSE UNCHANGED background_color
          /\ Called(Quiet("MouseInput", "self", button \o "/" \o state))
    /\ UNCHANGED <<event_loop, config, size, index_ct, surface,
                   control_flow, phase, redraw_requested>>

\* WindowEvent::Moved(pos) for this window: println!
OnMoved ==
    /\ phase = "events"
    /\ Called([Quiet("Moved", "self", "") EXCEPT !.printed = TRUE])
    /\ UNCHANGED <<event_loop, background_color, config, size, index_ct,
                   surface, control_flow, phase, redraw_requested>>

\* Any other WindowEvent for this window (`_ => {}`), and every WindowEvent
\* for another window id (the guard of the arm fails, outer `_ => {}`)
OnIgnoredWindowEvent ==
    /\ phase = "events"
    /\ \E w \in WindowIds :
       \E kind \in IF w = "self" THEN {"CursorMoved", "Focused"}
                   ELSE {"CloseRequested", "Resized", "MouseInput"} :
          Called(Quiet(kind, w, ""))
    /\ UNCHANGED <<event_loop, background_color, config, size, index_ct,
                   surface, control_flow, phase, redraw_requested>>

\* Event::MainEventsCleared
OnMainEventsCleared ==
    /\ phase = "events"
    /\ redraw_requested' = request_redraw(redraw_requested)
    /\ phase' = "redraws"
    /\ Called(Quiet("MainEventsCleared", "none", ""))
    /\ UNCHANGED <<event_loop, background_color, config, size, index_ct,
                   surface, control_flow>>

\* Event::RedrawRequested(window_id) if window_id == self.window.id()
OnRedrawRequested ==
    /\ phase = "redraws"
    /\ \E acquired \in AcquireResults :
          LET r == render(acquired, background_color, index_ct)
              l == [Quiet("RedrawRequested", "self", "") EXCEPT
                       !.result = acquired, !.ops = r.ops,
                       !.clear = r.clear, !.draw = r.draw,
                       !.logged = redraw_logs(acquired)]
          IN  /\ IF redraw_resizes(acquired)
                 THEN /\ Resize(size, "redraws")
                      /\ Called([l EXCEPT !.configured = <<config'>>])
                 ELSE /\ UNCHANGED <<size, config, surface, phase>>
                      /\ Called(l)
              /\ control_flow' = redraw_control_flow(acquired, control_flow)
    /\ redraw_requested' = FALSE
    /\ UNCHANGED <<event_loop, background_color, index_ct>>

\* Event::RedrawRequested for another window id: the guard fails, `_ => {}`
OnForeignRedrawRequested ==
    /\ phase = "redraws"
    /\ Called(Quiet("RedrawRequested", "other", ""))
    /\ UNCHANGED <<event_loop, background_color, config, size, index_ct,
                   surface, control_flow, phase, redraw_requested>>

\* Event::RedrawEventsCleared (`_ => {}`) ends the iteration once the
\* redraw this window asked for has been delivered; the loop then looks at
\* control_flow: Exit ends it (LoopDestroyed), anything else starts the
\* next iteration (NewEvents, `_ => {}`).
OnRedrawEventsCleared ==
    /\ phase = "redraws"
    /\ ~redraw_requested
    /\ phase' = IF control_flow = "Exit" THEN "destroyed" ELSE "events"
    /\ Called(Quiet("RedrawEventsCleared", "none", ""))
    /\ UNCHANGED <<event_loop, background_color, config, size, index_ct,
                   surface, control_flow, redraw_requested>>

Next ==
    \/ Spawn
    \/ OnCloseRequested
    \/ OnKeyboardInput
    \/ OnResized
    \/ OnScaleFactorChanged
    \/ OnMouseInput
    \/ OnMoved
    \/ OnIgnoredWindowEvent
    \/ OnMainEventsCleared
    \/ OnRedrawRequested
    \/ OnForeignRedrawRequested
    \/ OnRedrawEventsCleared

Spec == Init /\ [][Next]_vars

\* The loop delivers the redraw a window asked for.
LiveSpec == Spec /\ WF_vars(OnRedrawRequested) /\ WF_vars(OnRedrawEventsCleared)

----------------------------------------------------------------------------
\* Vocabulary of the properties

Count(s, x) == Cardinality({i \in 1..Len(s) : s[i] = x})

Pos(s, x) == CHOOSE i \in 1..Len(s) : s[i] = x

IsResize(l) == l.window = "self" /\ l.kind \in {"Resized", "ScaleFactorChanged"}

IsRedraw(l) == l.window = "self" /\ l.kind = "RedrawRequested"

IsExitRequest(l) ==
    /\ l.window = "self"
    /\ \/ l.kind = "CloseRequested"
       \/ l.kind = "KeyboardInput" /\ l.detail = "Pressed/Escape"

IsLeftPress(l) ==
    l.window = "self" /\ l.kind = "MouseInput" /\ l.detail = "Left/Pressed"

SkippedFrame(l) == l.ops = <<"get_current_texture">> /\ l.clear = <<>> /\ l.draw = <<>>

----------------------------------------------------------------------------
\* C1: a CloseRequested or pressed-Escape event for this window sets the
\* loop to Exit in that very step, and no call of the closure made once the
\* loop is in Exit submits or presents a frame.
C1_ExitStopsRendering ==
    [][ /\ IsExitRequest(last') => control_flow' = "Exit"
        /\ control_flow = "Exit" =>
              \A x \in {"submit", "present"} : Count(last'.ops, x) = 0 ]_vars

\* C2: after the handler of a resize event of any physical size, zero
\* width or height included, the stored size and the configuration's width
\* and height are the new size, the surface holds that configuration, and
\* the loop is alive to render the next redraw.
C2_ResizeReconfiguresAnySize ==
    IsResize(last) =>
        /\ last.new_size = <<size>>
        /\ config.width = size.width /\ config.height = size.height
        /\ surface = config
        /\ phase # "panicked"

\* C3: a redraw whose acquisition fails with Lost reconfigures the surface
\* at the stored size, submits and presents nothing, and leaves the control
\* flow, the background colour and the configuration as they were; every
\* frame acquired afterwards is cleared to the background colour of the
\* moment.
C3_LostReconfiguresAndSkips ==
    [][ /\ (IsRedraw(last') /\ last'.result = "Lost") =>
              /\ last'.configured = <<config>>
              /\ config.width = size.width /\ config.height = size.height
              /\ surface' = config
              /\ SkippedFrame(last')
              /\ phase' = "redraws"
              /\ UNCHANGED <<control_flow, background_color, config, size>>
        /\ (IsRedraw(last') /\ last'.result = "Ok") =>
              /\ last'.clear = <<background_color>>
              /\ background_color' = background_color ]_vars

C3_Witness ==
    /\ IsRedraw(last) /\ last.result = "Lost"
    /\ last.configured = <<config>>
    /\ background_color # InitialColor
    /\ control_flow = "Poll"

\* C4: a redraw whose acquisition fails with OutOfMemory sets the loop to
\* Exit in that step, submits and presents nothing and does not
\* reconfigure the surface.
C4_OutOfMemoryExits ==
    [][ (IsRedraw(last') /\ last'.result = "OutOfMemory") =>
            /\ control_flow' = "Exit"
            /\ SkippedFrame(last')
            /\ last'.configured = <<>>
            /\ ~last'.logged
            /\ UNCHANGED <<surface, config, size, background_color>> ]_vars

C4_Witness ==
    /\ IsRedraw(last) /\ last.result = "OutOfMemory"
    /\ control_flow = "Exit"
    /\ phase = "redraws"

\* C5: a redraw whose acquisition fails with an error other than Lost and
\* OutOfMemory logs it, skips the frame and changes nothing: control flow,
\* background colour, size, configuration and surface stay as they were and
\* the loop goes on.
C5_OtherErrorLogsAndContinues ==
    [][ (IsRedraw(last') /\ last'.result \in {"Timeout", "Outdated"}) =>
            /\ last'.logged
            /\ SkippedFrame(last')
            /\ last'.configured = <<>>
            /\ phase' = "redraws"
            /\ UNCHANGED <<control_flow, background_color, size, config,
                           surface, index_ct>> ]_vars

C5_Witness ==
    /\ IsRedraw(last) /\ last.result = "Outdated" /\ last.logged
    /\ control_flow = "Poll"
    /\ background_color # InitialColor

\* C6: the background colour always has alpha 1.0 and channels in [0,1];
\* right after a left-button press the channels are in [0,1); a mouse event
\* that is not a left-button press leaves the colour unchanged.
ChannelsIn(c, hi) == \A ch \in {c.r, c.g, c.b} : 0 <= ch /\ ch <= hi

C6_ColorInUnitCube ==
    /\ [](/\ background_color.a = ColorOne
          /\ ChannelsIn(background_color, ColorOne)
          /\ IsLeftPress(last) => ChannelsIn(background_color, ColorOne - 1))
    /\ [][ (last'.kind = "MouseInput" /\ ~IsLeftPress(last')) =>
               background_color' = background_color ]_vars

C6_Witness ==
    /\ IsLeftPress(last)
    /\ background_color # InitialColor
    /\ background_color.r = ColorOne - 1
    /\ background_color.a = ColorOne

\* C7: the geometry is 3 triangles: 9 indices, each a valid index into the
\* 5 vertices, all 5 vertices referenced; index_ct is the number of indices
\* and every acquired frame draws the index range 0..9 once.
C7_ThreeTriangles ==
    /\ Len(VERTICES) = 5
    /\ Len(INDICES) = 9
    /\ \A i \in 1..Len(INDICES) : INDICES[i] \in 0..(Len(VERTICES) - 1)
    /\ {INDICES[i] : i \in 1..Len(INDICES)} = 0..(Len(VERTICES) - 1)
    /\ index_ct = Len(INDICES)
    /\ index_ct = 3 * 3
    /\ (IsRedraw(last) /\ last.result = "Ok") => last.draw = << <<0, 9>> >>

C7_Witness ==
    /\ IsRedraw(last) /\ last.result = "Ok"
    /\ last.draw = << <<0, index_ct>> >>
    /\ Count(last.ops, "draw_indexed") = 1

\* C8: the configuration's width and height are the stored size in every
\* state, its presentation mode is Fifo, and the configuration changes only
\* in the handler of a Resized or ScaleFactorChanged event, which changes
\* neither the format nor the presentation mode.
C8_ConfigChangesOnlyOnResize ==
    /\ [](/\ config.width = size.width
          /\ config.height = size.height
          /\ config.present_mode = "Fifo")
    /\ [][ /\ config'.format = config.format
           /\ config'.present_mode = config.present_mode
           /\ config' # config => IsResize(last') ]_vars

C8_Witness ==
    /\ last.kind = "ScaleFactorChanged"
    /\ last.new_size = <<size>>
    /\ config.width = size.width /\ config.height = size.height
    /\ phase = "events"

\* C9: a redraw that acquires a frame records one render pass (cleared to
\* the background colour, one indexed draw), then submits once, then
\* presents once, in that order; a redraw whose acquisition fails only
\* tried to acquire.
C9_OnePassSubmitPresent ==
    [][ IsRedraw(last') =>
          IF last'.result = "Ok"
          THEN LET o == last'.ops IN
               /\ \A x \in {"get_current_texture", "begin_render_pass",
                            "draw_indexed", "end_render_pass", "submit",
                            "present"} : Count(o, x) = 1
               /\ Pos(o, "get_current_texture") < Pos(o, "begin_render_pass")
               /\ Pos(o, "begin_render_pass") < Pos(o, "draw_indexed")
               /\ Pos(o, "draw_indexed") < Pos(o, "end_render_pass")
               /\ Pos(o, "end_render_pass") < Pos(o, "submit")
               /\ Pos(o, "submit") < Pos(o, "present")
               /\ Pos(o, "present") = Len(o)
               /\ last'.clear = <<background_color>>
               /\ Len(last'.draw) = 1
          ELSE SkippedFrame(last') ]_vars

C9_Witness ==
    /\ IsRedraw(last) /\ last.result = "Ok"
    /\ Count(last.ops, "submit") = 1 /\ Count(last.ops, "present") = 1
    /\ last.clear = <<background_color>>

\* C10: every MainEventsCleared leaves a redraw requested, every
\* RedrawRequested for this window calls render once, the background
\* colour changes only on a left-button press and is the clear colour of
\* every acquired frame; and a requested redraw leads to a render attempt.
RedrawPending == phase = "redraws" /\ redraw_requested

RenderAttempted ==
    IsRedraw(last) /\ Count(last.ops, "get_current_texture") = 1

C10_TickLeadsToRender ==
    /\ [][ /\ last'.kind = "MainEventsCleared" =>
                 redraw_requested' /\ phase' = "redraws"
           /\ IsRedraw(last') => Count(last'.ops, "get_current_texture") = 1
           /\ background_color' # background_color => IsLeftPress(last')
           /\ (IsRedraw(last') /\ last'.result = "Ok") =>
                 last'.clear = <<background_color'>> ]_vars
    /\ (RedrawPending ~> RenderAttempted)

C10_Witness ==
    /\ IsRedraw(last) /\ last.result = "Ok"
    /\ last.clear = <<background_color>>
    /\ background_color # InitialColor
    /\ ~redraw_requested

====
